---- MODULE Spec2Model ----
(***************************************************************************)
(* GetXPosure: matching a GPX location history against published exposure *)
(* sites.  The module models                                               *)
(*   - location_matching.EDM and location_matching.show_matches            *)
(*     (specifications Spec, FairSpec and SpecEDM), and                    *)
(*   - get_data.get_exposure_locations' choice between the cached CSV and  *)
(*     a fresh download (specification SpecCache).                         *)
(*                                                                         *)
(* Numbers.  A float that may be non-finite is a record [nan, v]: NaN is   *)
(* [nan |-> TRUE, v |-> 0], a finite value v is [nan |-> FALSE, v |-> v].  *)
(* Every comparison with NaN is false, as in IEEE-754 / numpy.  Binary     *)
(* floating point is modelled with a mantissa of MantBits bits and         *)
(* round-to-nearest-even (Round); numpy's float64 has 53.  Distances are   *)
(* kept in hundredths of a metre, the granularity np.round(.., 2) leaves.  *)
(* Sequences are 1-based where Python's are 0-based.                       *)
(***************************************************************************)
EXTENDS Integers, Sequences, FiniteSets, TLC

VARIABLES
    gpx_gdf,            \* show_matches argument: sequence of track-point rows
    exp_gdf,            \* show_matches argument: sequence of exposure-site rows
    minimum_distance,   \* show_matches argument, metres
    pc,                 \* position inside show_matches
    distances,          \* local `distances`
    results,            \* local `results`: sequence of <<row, col>> from np.where
    index_pairs,        \* local `index_pairs`
    out,                \* what show_matches has printed so far
    iterations,         \* number of completed passes of the while loop
    csv_dir,            \* the data folder: set of CSV files
    now,                \* wall clock, hours
    ret                 \* last return of get_exposure_locations

matchVars == <<gpx_gdf, exp_gdf, minimum_distance, pc, distances, results,
               index_pairs, out, iterations>>
cacheVars == <<csv_dir, now, ret>>
vars == <<gpx_gdf, exp_gdf, minimum_distance, pc, distances, results,
          index_pairs, out, iterations, csv_dir, now, ret>>

----------------------------------------------------------------------------
(* Bounds of the model *)

MaxN == 2          \* track points per run
MaxM == 2          \* exposure sites per run
MinDist == 2       \* the caller's minimum_distance, metres
MantBits == 4      \* mantissa width of the modelled binary floating point
MaxCoord == 6      \* SpecEDM: coordinates are 0..MaxCoord in both axes
MaxNow == 26       \* SpecCache: the clock stops here, hours
MaxFiles == 2      \* SpecCache: CSV files the data folder can hold

HoursPerDay == 24  \* timedelta.seconds wraps at one day

----------------------------------------------------------------------------
(* Floats *)

NaN == [nan |-> TRUE, v |-> 0]
F(v) == [nan |-> FALSE, v |-> v]

\* a < b and a > b on floats: false as soon as one side is NaN
Lt(a, b) == ~a.nan /\ ~b.nan /\ a.v < b.v
Gt(a, b) == ~a.nan /\ ~b.nan /\ a.v > b.v

RECURSIVE Pow2(_)
Pow2(k) == IF k = 0 THEN 1 ELSE 2 * Pow2(k - 1)

\* the spacing of representable values around magnitude a
RECURSIVE Quantum(_, _)
Quantum(a, q) == IF a < Pow2(MantBits) * q THEN q ELSE Quantum(a, 2 * q)

RoundMag(a) ==
    LET q  == Quantum(a, 1)
        lo == (a \div q) * q
        r  == a - lo
    IN  IF 2 * r < q THEN lo
        ELSE IF 2 * r > q THEN lo + q
        ELSE IF (a \div q) % 2 = 0 THEN lo ELSE lo + q

\* round-to-nearest-even to MantBits significant bits
Round(v) == IF v < 0 THEN 0 - RoundMag(0 - v) ELSE RoundMag(v)

\* a - b on floats
Sub(a, b) == IF a.nan \/ b.nan THEN NaN ELSE F(Round(a.v - b.v))

RECURSIVE SqrtSearch(_, _, _)
SqrtSearch(n, lo, hi) ==
    IF lo >= hi THEN lo
    ELSE LET mid == (lo + hi + 1) \div 2
         IN  IF mid * mid <= n THEN SqrtSearch(n, mid, hi)
             ELSE SqrtSearch(n, lo, mid - 1)

\* floor of the square root (46340 is the largest root of a 32-bit integer)
Isqrt(n) == SqrtSearch(n, 0, IF n < 46340 THEN n ELSE 46340)

\* np.round(np.sqrt(s), 2), in hundredths; the root of a negative number is NaN
SqrtRound2(s) ==
    IF s < 0 THEN NaN ELSE F((Isqrt(40000 * s) + 1) \div 2)

----------------------------------------------------------------------------
(* location_matching.EDM *)

\* np.sum(A**2, axis=1) for one row
SumSq(p) == Round(Round(p.x * p.x) + Round(p.y * p.y))

\* one cell of np.dot(A, B.T)
Dot(a, b) == Round(Round(a.x * b.x) + Round(a.y * b.y))

\* one cell of p1 + p2 + p3, evaluated left to right
SquaredDistance(a, b) == Round(Round(SumSq(a) + SumSq(b)) + (0 - 2) * Dot(a, b))

EDM(A, B) ==
    [i \in 1..Len(A) |-> [j \in 1..Len(B) |-> SqrtRound2(SquaredDistance(A[i], B[j]))]]

----------------------------------------------------------------------------
(* location_matching.show_matches *)

\* exposure_array[1] and exposure_array[2]
pre_array(i, j) == Sub(exp_gdf[j].arrival_epoch, gpx_gdf[i].time_epoch)
post_array(i, j) == Sub(exp_gdf[j].departure_epoch, gpx_gdf[i].time_epoch)

\* CellMatches with the distance and arrival tests made inclusive
CellMatchesInclusive(d, pre, post) ==
    /\ ~d.nan /\ d.v <= 100 * minimum_distance
    /\ ~pre.nan /\ pre.v <= 0
    /\ Gt(post, F(0))

\* the condition handed to np.where, for one cell; the threshold is in metres
CellMatches(d, pre, post) ==
    Lt(d, F(100 * minimum_distance)) /\ Lt(pre, F(0)) /\ Gt(post, F(0))

\* np.where scans the n x m matrix in row-major order; k counts cells from 0
RECURSIVE Where(_, _, _, _)
Where(D, n, m, k) ==
    IF k >= n * m THEN <<>>
    ELSE LET i == (k \div m) + 1
             j == (k % m) + 1
         IN  (IF CellMatches(D[i][j], pre_array(i, j), post_array(i, j))
              THEN <<(<<i, j>>)>> ELSE <<>>) \o Where(D, n, m, k + 1)

\* RemoveSite dropping only the pair at the head of the list
RemoveHeadOnly(pairs, exp_id) == Tail(pairs)

\* [pair for pair in index_pairs if exp_id != pair[1]]
RECURSIVE RemoveSite(_, _)
RemoveSite(pairs, exp_id) ==
    IF pairs = <<>> THEN <<>>
    ELSE (IF Head(pairs)[2] # exp_id THEN <<Head(pairs)>> ELSE <<>>)
         \o RemoveSite(Tail(pairs), exp_id)

\* FirstPair taking index_pairs[-1]
LastPair(pairs) == pairs[Len(pairs)]

\* gpx_id, exp_id = index_pairs[0]
FirstPair(pairs) == pairs[1]

\* HasPairs testing len(index_pairs) > 1
HasSeveralPairs(pairs) == Len(pairs) > 1

\* len(index_pairs) > 0
HasPairs(pairs) == Len(pairs) > 0

Header == [kind |-> "EXPOSURE(S) FOUND", gpx_id |-> 0, exp_id |-> 0]
AllGood == [kind |-> "no potential exposures found", gpx_id |-> 0, exp_id |-> 0]
Entry(g, e) == [kind |-> "entry", gpx_id |-> g, exp_id |-> e]

\* lines 21-24: np.vstack of an empty column raises ValueError
ComputeDistances ==
    /\ pc = "start"
    /\ IF Len(gpx_gdf) = 0 \/ Len(exp_gdf) = 0
       THEN /\ pc' = "error"
            /\ UNCHANGED distances
       ELSE /\ distances' = EDM(gpx_gdf, exp_gdf)
            /\ pc' = "extract"
    /\ UNCHANGED <<gpx_gdf, exp_gdf, minimum_distance, results, index_pairs,
                   out, iterations>>
    /\ UNCHANGED cacheVars

\* lines 26-40
ExtractCandidates ==
    /\ pc = "extract"
    /\ results' = Where(distances, Len(gpx_gdf), Len(exp_gdf), 0)
    /\ index_pairs' = results'
    /\ pc' = "branch"
    /\ UNCHANGED <<gpx_gdf, exp_gdf, minimum_distance, distances, out, iterations>>
    /\ UNCHANGED cacheVars

\* lines 43-44
PrintHeader ==
    /\ pc = "branch"
    /\ HasPairs(index_pairs)
    /\ out' = Append(out, Header)
    /\ pc' = "loop"
    /\ UNCHANGED <<gpx_gdf, exp_gdf, minimum_distance, distances, results,
                   index_pairs, iterations>>
    /\ UNCHANGED cacheVars

\* lines 65-66
PrintAllGood ==
    /\ pc = "branch"
    /\ ~HasPairs(index_pairs)
    /\ out' = Append(out, AllGood)
    /\ pc' = "done"
    /\ UNCHANGED <<gpx_gdf, exp_gdf, minimum_distance, distances, results,
                   index_pairs, iterations>>
    /\ UNCHANGED cacheVars

\* lines 46-64: one pass of the while loop, and the loop test that follows it
ReportStep ==
    /\ pc = "loop"
    /\ HasPairs(index_pairs)
    /\ LET gpx_id == FirstPair(index_pairs)[1]
           exp_id == FirstPair(index_pairs)[2]
       IN  /\ index_pairs' = RemoveSite(index_pairs, exp_id)
           /\ out' = Append(out, Entry(gpx_id, exp_id))
    /\ iterations' = iterations + 1
    /\ pc' = IF HasPairs(index_pairs') THEN "loop" ELSE "done"
    /\ UNCHANGED <<gpx_gdf, exp_gdf, minimum_distance, distances, results>>
    /\ UNCHANGED cacheVars

----------------------------------------------------------------------------
(* Inputs of show_matches *)

\* Track points lie at x = 0 or 1 m, recorded at hour 1 or 2, or carry a
\* non-finite time.  Sites lie at x = 0 or 3 m, so with a threshold of 2 m a
\* pair is within range (0 or 1 m), exactly at the threshold (2 m) or out of
\* range (3 m).  The windows: around both track times, opening at the first,
\* closing at the second, and one with arrival > departure.
TrackXs == {0, 1}
TrackTimes == {F(1), F(2), NaN}
SiteXs == {0, 3}
Windows == {<<0, 3>>, <<1, 3>>, <<0, 2>>, <<3, 2>>}

TrackRows == [x : TrackXs, y : {0}, time_epoch : TrackTimes]
SiteRows ==
    {[x |-> x, y |-> 0, arrival_epoch |-> F(w[1]), departure_epoch |-> F(w[2])] :
        x \in SiteXs, w \in Windows}

SeqsUpTo(S, n) == UNION {[1..k -> S] : k \in 0..n}

\* line 13: the caller hands show_matches its two tables and the threshold
ShowMatches ==
    /\ pc = "idle"
    /\ gpx_gdf' \in SeqsUpTo(TrackRows, MaxN)
    /\ exp_gdf' \in SeqsUpTo(SiteRows, MaxM)
    /\ minimum_distance' = MinDist
    /\ pc' = "start"
    /\ UNCHANGED <<distances, results, index_pairs, out, iterations>>
    /\ UNCHANGED cacheVars

Init ==
    /\ gpx_gdf = <<>>
    /\ exp_gdf = <<>>
    /\ minimum_distance = 0
    /\ pc = "idle"
    /\ distances = <<>>
    /\ results = <<>>
    /\ index_pairs = <<>>
    /\ out = <<>>
    /\ iterations = 0
    /\ csv_dir = {}
    /\ now = 0
    /\ ret = [kind |-> "none"]

Next ==
    \/ ShowMatches
    \/ ComputeDistances
    \/ ExtractCandidates
    \/ PrintHeader
    \/ PrintAllGood
    \/ ReportStep

Spec == Init /\ [][Next]_vars

\* show_matches is synchronous: once in the while loop it keeps executing it
FairSpec == Init /\ [][Next]_vars /\ WF_vars(ReportStep)

----------------------------------------------------------------------------
(* Properties of show_matches *)

N == Len(gpx_gdf)
M == Len(exp_gdf)
Threshold == F(100 * minimum_distance)

\* lines 26-40 have run
Extracted == pc \in {"branch", "loop", "done"}

\* the candidate list as extracted (results is never reassigned)
CandidateSet == {results[k] : k \in 1..Len(results)}
CandidateSites == {p[2] : p \in CandidateSet}
CandidatesOf(j) == {p \in CandidateSet : p[2] = j}

Entries == {k \in 1..Len(out) : out[k].kind = "entry"}
EntriesOf(j) == {k \in Entries : out[k].exp_id = j}

InWindow(i, j) ==
    /\ Lt(exp_gdf[j].arrival_epoch, gpx_gdf[i].time_epoch)
    /\ Lt(gpx_gdf[i].time_epoch, exp_gdf[j].departure_epoch)

\* C1: once the candidates are extracted, (i, j) is a candidate iff
\* D[i][j] < minimum_distance and arrival[j] < time[i] < departure[j], all
\* strict, for every cell of the n x m matrices; each candidate is listed once
\* and index_pairs starts as exactly that list.
C1_CandidateIff ==
    Extracted =>
        /\ \A i \in 1..N : \A j \in 1..M :
              (<<i, j>> \in CandidateSet) <=> (Lt(distances[i][j], Threshold) /\ InWindow(i, j))
        /\ Cardinality(CandidateSet) = Len(results)
        /\ (pc = "branch" => index_pairs = results)

\* a run with a candidate, a cell exactly at the distance threshold inside the
\* window, and a cell within range whose time equals the arrival instant
C1_Witness ==
    /\ pc = "done"
    /\ CandidateSet # {}
    /\ \E i \in 1..N : \E j \in 1..M :
          distances[i][j] = Threshold /\ InWindow(i, j) /\ <<i, j>> \notin CandidateSet
    /\ \E i \in 1..N : \E j \in 1..M :
          /\ Lt(distances[i][j], Threshold)
          /\ gpx_gdf[i].time_epoch = exp_gdf[j].arrival_epoch
          /\ <<i, j>> \notin CandidateSet

\* C2: no site ever has more than one Report Entry, a site without candidates
\* has none, and when the loop has finished every site with a candidate has
\* exactly one, so the entries number the distinct candidate sites.
C2_OneEntryPerSite ==
    Extracted =>
        /\ \A j \in 1..M :
              Cardinality(EntriesOf(j)) <= (IF j \in CandidateSites THEN 1 ELSE 0)
        /\ pc = "done" =>
              /\ \A j \in CandidateSites : Cardinality(EntriesOf(j)) = 1
              /\ Cardinality(Entries) = Cardinality(CandidateSites)

\* a finished run where one site had two candidates and another site had none
C2_Witness ==
    /\ pc = "done"
    /\ \E j \in 1..M : Cardinality(CandidatesOf(j)) >= 2 /\ Cardinality(EntriesOf(j)) = 1
    /\ \E j \in 1..M : CandidatesOf(j) = {} /\ EntriesOf(j) = {}

\* C3: the representative of every reported site j is the candidate with the
\* smallest track-point index among the candidates of site j.
C3_FirstEncountered ==
    \A k \in Entries :
        /\ <<out[k].gpx_id, out[k].exp_id>> \in CandidateSet
        /\ \A p \in CandidatesOf(out[k].exp_id) : out[k].gpx_id <= p[1]

\* a site reported second, after another site was reported and removed, whose
\* representative is track point 1 although a later candidate of the same site
\* is both closer and earlier in time
C3_Witness ==
    /\ pc = "done"
    /\ Cardinality(Entries) >= 2
    /\ \E k \in Entries : \E p \in CandidatesOf(out[k].exp_id) :
          /\ k = Len(out)
          /\ p[1] > out[k].gpx_id
          /\ Lt(distances[p[1]][p[2]], distances[out[k].gpx_id][p[2]])
          /\ Lt(gpx_gdf[p[1]].time_epoch, gpx_gdf[out[k].gpx_id].time_epoch)

C5_EmptyInputCompletes ==
    (N = 0 \/ M = 0) => pc # "error"

\* a row holding a non-finite timestamp
Malformed ==
    \/ \E i \in 1..N : gpx_gdf[i].time_epoch.nan
    \/ \E j \in 1..M : exp_gdf[j].arrival_epoch.nan \/ exp_gdf[j].departure_epoch.nan

\* C6: with a malformed row the run raises at once: it never gets past the
\* start and prints nothing.
C6_MalformedRaises ==
    Malformed => (pc \in {"start", "error"} /\ out = <<>>)

\* C7: a finished run over a site with arrival > departure has printed a
\* diagnostic about it.
C7_InvalidWindowSurfaced ==
    (pc = "done" /\ \E j \in 1..M : Gt(exp_gdf[j].arrival_epoch, exp_gdf[j].departure_epoch))
        => \E k \in 1..Len(out) : out[k].kind = "InvalidWindowWarning"

\* C10: every pass of the while loop shortens index_pairs, the loop reaches
\* its end, and it has then made exactly one pass per distinct candidate site.
C10_LoopTerminates ==
    /\ [][pc = "loop" => (Len(index_pairs') < Len(index_pairs) /\ iterations' = iterations + 1)]_vars
    /\ [](pc = "loop" => <>(pc = "done"))
    /\ [](pc = "done" => iterations = Cardinality(CandidateSites))

\* a finished run whose loop made two passes over three or more candidates
C10_Witness ==
    /\ pc = "done"
    /\ iterations = 2
    /\ Len(results) >= 3

----------------------------------------------------------------------------
(* location_matching.EDM on its own *)

Points == [x : 0..MaxCoord, y : 0..MaxCoord]

InitEDM ==
    /\ gpx_gdf = <<>>
    /\ exp_gdf = <<>>
    /\ minimum_distance = 0
    /\ pc = "idle"
    /\ distances = <<>>
    /\ results = <<>>
    /\ index_pairs = <<>>
    /\ out = <<>>
    /\ iterations = 0
    /\ csv_dir = {}
    /\ now = 0
    /\ ret = [kind |-> "none"]

\* distances = EDM(A, B) for one track point and one exposure site
ApplyEDM ==
    /\ pc = "idle"
    /\ \E a \in Points : \E b \in Points :
          /\ gpx_gdf' = <<a>>
          /\ exp_gdf' = <<b>>
    /\ distances' = EDM(gpx_gdf', exp_gdf')
    /\ pc' = "returned"
    /\ UNCHANGED <<minimum_distance, results, index_pairs, out, iterations>>
    /\ UNCHANGED cacheVars

NextEDM == ApplyEDM

SpecEDM == InitEDM /\ [][NextEDM]_vars

\* C8: every entry of the matrix EDM returns is a number, not NaN, and is
\* not negative.
C8_NonNegativeNoNaN ==
    pc = "returned" =>
        \A i \in 1..Len(gpx_gdf) : \A j \in 1..Len(exp_gdf) :
            ~distances[i][j].nan /\ distances[i][j].v >= 0

----------------------------------------------------------------------------
(* get_data.get_exposure_locations: cached CSV or fresh download *)

\* A CSV in the data folder.  stamp: its name parses with tformat, and t is
\* the hour it names.  Otherwise t tells the names apart; such a name starts
\* with a letter, so it sorts after every name that starts with a digit.
Stamped(t) == [stamp |-> TRUE, t |-> t]
Other(k) == [stamp |-> FALSE, t |-> k]
OtherNames == {Other(1), Other(2)}

MaxAges == {1, 6}

\* the orders in which glob.glob can list the folder
Listings(files) ==
    {l \in [1..Cardinality(files) -> files] : \A a, b \in DOMAIN l : a # b => l[a] # l[b]}

\* list.remove(f)
RemoveAt(l, k) == [a \in 1..(Len(l) - 1) |-> IF a < k THEN l[a] ELSE l[a + 1]]

\* lines 121-125: the for loop walks csv_files by position while removing from it
RECURSIVE FilterLoop(_, _)
FilterLoop(l, k) ==
    IF k > Len(l) THEN l
    ELSE IF l[k].stamp THEN FilterLoop(l, k + 1)
    ELSE FilterLoop(RemoveAt(l, k), k + 1)

\* name order of sorted(csv_files)
SortsAfter(f, g) == (~f.stamp /\ g.stamp) \/ (f.stamp = g.stamp /\ f.t > g.t)

\* sorted(csv_files)[-1]
Newest(l) == CHOOSE f \in {l[k] : k \in 1..Len(l)} :
                 \A g \in {l[k] : k \in 1..Len(l)} : g # f => SortsAfter(f, g)

\* diff.seconds / 3600, for a diff of d >= 0 hours: timedelta keeps whole days
\* in .days and only the remainder in .seconds
SecondsInHours(d) == d % HoursPerDay

\* line 133
IsRecent(d, max_age_hours) == SecondsInHours(d) < max_age_hours

Returned(kind, file_time, max_age_hours) ==
    [kind |-> kind, file_time |-> file_time, at |-> now, max_age_hours |-> max_age_hours]

\* lines 148-192: download, write the CSV to csv_path (default: named by now)
Fetch(csv_path, max_age_hours) ==
    /\ Cardinality(csv_dir \cup {csv_path}) <= MaxFiles
    /\ csv_dir' = csv_dir \cup {csv_path}
    /\ ret' = Returned("fetched", csv_path.t, max_age_hours)

\* get_exposure_locations(csv_path, max_age_hours)
GetExposureLocations ==
    /\ \E csv_path \in {Stamped(now)} \cup OtherNames :
       \E max_age_hours \in MaxAges :
       \E listing \in Listings(csv_dir) :
          LET csv_files == FilterLoop(listing, 1)
          IN  IF Len(csv_files) > 0
              THEN LET newest_csv == Newest(csv_files)
                   IN  IF ~newest_csv.stamp
                       THEN \* line 129: strptime raises ValueError
                            /\ ret' = Returned("ValueError", 0, max_age_hours)
                            /\ UNCHANGED csv_dir
                       ELSE IF IsRecent(now - newest_csv.t, max_age_hours)
                       THEN /\ ret' = Returned("cached", newest_csv.t, max_age_hours)
                            /\ UNCHANGED csv_dir
                       ELSE Fetch(csv_path, max_age_hours)
              ELSE Fetch(csv_path, max_age_hours)
    /\ UNCHANGED now
    /\ UNCHANGED matchVars

\* an hour passes
Tick ==
    /\ now < MaxNow
    /\ now' = now + 1
    /\ UNCHANGED <<csv_dir, ret>>
    /\ UNCHANGED matchVars

NextCache == GetExposureLocations \/ Tick

SpecCache == Init /\ [][NextCache]_vars

\* C9: the cached CSV is returned only when its age, now minus the time in
\* its name, is less than max_age_hours.
C9_CacheOnlyWhenFresh ==
    ret.kind = "cached" => (ret.at - ret.file_time) < ret.max_age_hours

====
